---- MODULE Spec2Model ----
(***************************************************************************)
(* Model of the caddy `git` filesystem module (package gitfs):             *)
(*   module.go  Repo.Provision / Open / Stat / pull / refresh / Cleanup    *)
(*   fs.go      statFs                                                     *)
(*   webhook    Handler.Validate / ServeHTTP (http.handlers.gitfs_webhook) *)
(* One Repo, a set of reader goroutines calling Open/Stat, a set of        *)
(* webhook goroutines calling pull, the refresh goroutine started by       *)
(* Provision, and the remote repository behind r.repo.                     *)
(***************************************************************************)
EXTENDS Integers, FiniteSets, Sequences, TLC

\* ---------------------------------------------------------------- bounds
\* Number of distinct commits the remote reference can point at.
MaxCommit == 2

Commits == 1..MaxCommit

\* Number of pushes in the behaviours where the reference only moves forward.
MaxPushes == 2

\* Goroutines of the host calling into the Repo: one keeps calling Open,
\* one keeps calling Stat, and each webhook goroutine keeps calling pull.
Readers == {"opener", "statter"}
OpOf(r) == IF r = "opener" THEN "Open" ELSE "Stat"
Webhooks == {"w1", "w2"}
Timer == "timer"
NoOne == "none"

\* Configuration values tried for the two fields Provision looks at.
URLs == {"", "u"}
Periods == {0 - 1, 0, 1}

\* File names that occur in the repository.
Paths == {"a.txt", "b.txt"}

\* The name readers ask for: b.txt, which some commits have and some lack.
ReadNames == {"b.txt"}

\* ------------------------------------------------- the repository client
\* gitfs.Hash is a [20]byte array; it is copied in more than one machine
\* word, modelled as two halves.
Hash(c) == <<c, c>>
ZeroHash == <<0, 0>>

\* The files present at commit c: a.txt always, b.txt at even commits.
FilesAt(c) == {p \in Paths : p = "a.txt" \/ c % 2 = 0}

\* The fs.FS returned by Clone at commit c: file name -> file content.
TreeOf(c) == [p \in FilesAt(c) |-> c]

\* The zero statFs of an unprovisioned Repo.
NoTree == [p \in {} |-> 0]

NotFound == [err |-> "not exist"]

\* Variant of FsOpen: a missing name yields an empty file instead of an error.
FsOpen_NeverFails(tree, name) ==
    [file |-> name, data |-> IF name \in DOMAIN tree THEN tree[name] ELSE 0]

\* fs.FS.Open on a tree.
FsOpen(tree, name) ==
    IF name \in DOMAIN tree
    THEN [file |-> name, data |-> tree[name]]
    ELSE NotFound

\* fs.File.Stat on an open file.
FileStat(f) == [info |-> f.file, size |-> f.data]

\* ------------------------------------------------------------ the state
VARIABLES
    URL,            \* Repo.URL
    RefreshPeriod,  \* Repo.RefreshPeriod
    prov,           \* "new" | "ready" | "failed": outcome of Provision
    head,           \* the commit the remote reference points at
    hash,           \* Repo.hash
    statFs,         \* Repo.statFs (the tree)
    writer,         \* holder of r.mu in write mode, or NoOne
    rlocked,        \* readers holding r.mu in read mode
    cancelled,      \* r.ctx is done
    tickPending,    \* a tick is buffered in t.C
    tpc, th, tclone,            \* refresh goroutine: position, h, (hash, f)
    wpc, wclone, wpre,          \* pull calls: position, (h, fs), snapshot at Lock
    rpc, rname, rres, robs, rseen   \* Open/Stat calls: position, name, result,
                                    \* tree read, trees current during the call

vars == <<URL, RefreshPeriod, prov, head, hash, statFs, writer, rlocked,
          cancelled, tickPending, tpc, th, tclone, wpc, wclone, wpre,
          rpc, rname, rres, robs, rseen>>

config == <<URL, RefreshPeriod>>
timerVars == <<tpc, th, tclone>>
pullVars == <<wpc, wclone, wpre>>
readVars == <<rpc, rname, rres, robs, rseen>>

NoClone == [h |-> ZeroHash, fs |-> NoTree]
None == [none |-> TRUE]

Init ==
    /\ URL \in URLs
    /\ RefreshPeriod \in Periods
    /\ prov = "new"
    /\ head = 1
    /\ hash = ZeroHash
    /\ statFs = NoTree
    /\ writer = NoOne
    /\ rlocked = {}
    /\ cancelled = FALSE
    /\ tickPending = FALSE
    /\ tpc = "none"
    /\ th = ZeroHash
    /\ tclone = NoClone
    /\ wpc = [w \in Webhooks |-> "idle"]
    /\ wclone = [w \in Webhooks |-> NoClone]
    /\ wpre = [w \in Webhooks |-> None]
    /\ rpc = [r \in Readers |-> "idle"]
    /\ rname = [r \in Readers |-> ""]
    /\ rres = [r \in Readers |-> None]
    /\ robs = [r \in Readers |-> NoTree]
    /\ rseen = [r \in Readers |-> {}]

\* A panic in any goroutine ends the process.
Alive == tpc # "panic"

\* Writers that have called r.mu.Lock() and not yet got the lock.
WaitingWriters ==
    {w \in Webhooks : wpc[w] = "lock"} \cup (IF tpc = "lock" THEN {Timer} ELSE {})

\* Variants of CanLock: a Lock that does not wait for the readers, and a
\* Lock that does not wait for another writer.
CanLock_IgnoreReaders == writer = NoOne
CanLock_IgnoreWriter == rlocked = {}

\* sync.RWMutex: Lock waits for the writer and the readers to leave.
CanLock == writer = NoOne /\ rlocked = {}

\* sync.RWMutex: RLock waits while a writer holds or is waiting for the lock.
CanRLock == writer = NoOne /\ WaitingWriters = {}

\* The trees that have been current during each call in progress: a write
\* of r.statFs adds the new tree to the record of every reader in a call.
SeenAfterInstall(tree) ==
    [r \in Readers |-> IF rpc[r] = "idle" THEN rseen[r] ELSE rseen[r] \cup {tree}]

\* ----------------------------------------------------------- the remote
\* Someone pushes: the reference moves to another commit.
RemoteUpdate ==
    /\ Alive
    /\ \E c \in Commits \ {head} : head' = c
    /\ UNCHANGED <<config, prov, hash, statFs, writer, rlocked, cancelled,
                   tickPending, timerVars, pullVars, readVars>>

\* Someone pushes on top: the reference moves to the next commit.
RemotePush ==
    /\ Alive
    /\ head < 1 + MaxPushes
    /\ head' = head + 1
    /\ UNCHANGED <<config, prov, hash, statFs, writer, rlocked, cancelled,
                   tickPending, timerVars, pullVars, readVars>>

\* ------------------------------------------------------------ Provision
\* Variant of Provision: the refresh goroutine is started whatever the
\* refresh period is.
Provision_AlwaysStartsLoop ==
    /\ prov = "new"
    /\ \/ /\ URL = ""
          /\ prov' = "failed"
          /\ UNCHANGED <<hash, statFs, tpc>>
       \/ /\ URL # ""
          /\ \E outcome \in {"newrepo_err", "clone_err", "ok"} :
                IF outcome = "ok"
                THEN /\ hash' = Hash(head)
                     /\ statFs' = TreeOf(head)
                     /\ prov' = "ready"
                     /\ tpc' = "start"
                ELSE /\ prov' = "failed"
                     /\ UNCHANGED <<hash, statFs, tpc>>
    /\ UNCHANGED <<config, head, writer, rlocked, cancelled, tickPending,
                   th, tclone, pullVars, readVars>>

\* Repo.Provision: the URL check, gitfs.NewRepo, the initial Clone, the
\* first snapshot, the mutex, and the refresh goroutine.
Provision ==
    /\ prov = "new"
    /\ \/ /\ URL = ""
          /\ prov' = "failed"
          /\ UNCHANGED <<hash, statFs, tpc>>
       \/ /\ URL # ""
          /\ \E outcome \in {"newrepo_err", "clone_err", "ok"} :
                IF outcome = "ok"
                THEN /\ hash' = Hash(head)
                     /\ statFs' = TreeOf(head)
                     /\ prov' = "ready"
                     /\ tpc' = IF RefreshPeriod # 0 THEN "start" ELSE tpc
                ELSE /\ prov' = "failed"
                     /\ UNCHANGED <<hash, statFs, tpc>>
    /\ UNCHANGED <<config, head, writer, rlocked, cancelled, tickPending,
                   th, tclone, pullVars, readVars>>

\* -------------------------------------------------------------- Cleanup
\* Variant of Cleanup: it takes r.mu before it cancels.
Cleanup_TakesLock ==
    /\ Alive
    /\ prov # "new"
    /\ CanLock
    /\ cancelled' = TRUE
    /\ UNCHANGED <<config, prov, head, hash, statFs, writer, rlocked,
                   tickPending, timerVars, pullVars, readVars>>

\* Repo.Cleanup: r.cancel().
Cleanup ==
    /\ Alive
    /\ prov # "new"
    /\ cancelled' = TRUE
    /\ UNCHANGED <<config, prov, head, hash, statFs, writer, rlocked,
                   tickPending, timerVars, pullVars, readVars>>

\* ---------------------------------------------------------- Open / Stat
\* A goroutine of the host calls Repo.Open(name) or Repo.Stat(name).
ReaderCall(r) ==
    /\ Alive
    /\ prov = "ready"
    /\ rpc[r] = "idle"
    /\ \E name \in ReadNames : rname' = [rname EXCEPT ![r] = name]
    /\ rpc' = [rpc EXCEPT ![r] = "rlock"]
    /\ rseen' = [rseen EXCEPT ![r] = {statFs}]
    /\ UNCHANGED <<config, prov, head, hash, statFs, writer, rlocked,
                   cancelled, tickPending, timerVars, pullVars, rres, robs>>

\* r.mu.RLock()
ReaderRLock(r) ==
    /\ Alive
    /\ rpc[r] = "rlock"
    /\ CanRLock
    /\ rlocked' = rlocked \cup {r}
    /\ rpc' = [rpc EXCEPT ![r] = "open"]
    /\ UNCHANGED <<config, prov, head, hash, statFs, writer, cancelled,
                   tickPending, timerVars, pullVars, rname, rres, robs, rseen>>

\* r.statFs.Open(name): the tree is read from r.statFs and searched.
ReaderOpen(r) ==
    /\ Alive
    /\ rpc[r] = "open"
    /\ LET f == FsOpen(statFs, rname[r])
       IN /\ rres' = [rres EXCEPT ![r] = f]
          /\ rpc' = [rpc EXCEPT ![r] =
                        IF OpOf(r) = "Stat" /\ f # NotFound THEN "fstat" ELSE "ret"]
    /\ robs' = [robs EXCEPT ![r] = statFs]
    /\ UNCHANGED <<config, prov, head, hash, statFs, writer, rlocked, cancelled,
                   tickPending, timerVars, pullVars, rname, rseen>>

\* Stat only: f.Stat() on the file Open returned.
ReaderFileStat(r) ==
    /\ Alive
    /\ rpc[r] = "fstat"
    /\ rres' = [rres EXCEPT ![r] = FileStat(rres[r])]
    /\ rpc' = [rpc EXCEPT ![r] = "ret"]
    /\ UNCHANGED <<config, prov, head, hash, statFs, writer, rlocked, cancelled,
                   tickPending, timerVars, pullVars, rname, robs, rseen>>

\* The deferred r.mu.RUnlock() and the return; the call's locals are gone.
ReaderReturn(r) ==
    /\ Alive
    /\ rpc[r] = "ret"
    /\ rlocked' = rlocked \ {r}
    /\ rpc' = [rpc EXCEPT ![r] = "idle"]
    /\ rname' = [rname EXCEPT ![r] = ""]
    /\ rres' = [rres EXCEPT ![r] = None]
    /\ robs' = [robs EXCEPT ![r] = NoTree]
    /\ rseen' = [rseen EXCEPT ![r] = {}]
    /\ UNCHANGED <<config, prov, head, hash, statFs, writer, cancelled,
                   tickPending, timerVars, pullVars>>

\* ----------------------------------------------------------------- pull
\* Repo.pull is entered on the Repo and calls r.mu.Lock().
PullCall(w) ==
    /\ Alive
    /\ prov = "ready"
    /\ wpc[w] = "idle"
    /\ wpc' = [wpc EXCEPT ![w] = "lock"]
    /\ UNCHANGED <<config, prov, head, hash, statFs, writer, rlocked, cancelled,
                   tickPending, timerVars, wclone, wpre, readVars>>

\* ------------------------------------------------------------ ServeHTTP
\* What h.ctx.Filesystems().Get(h.Filesystem) can find under the handler's
\* name: nothing, a filesystem without Unwrap, one whose Unwrap gives
\* something other than a *Repo, or one whose Unwrap gives the Repo.
FsKinds == {"missing", "plain", "other", "gitfs"}
Found(k) == k # "missing"
Unwrappable(k) == k \in {"other", "gitfs"}
UnwrapsToRepo(k) == k = "gitfs"

\* Handler.Validate: nil only for a filesystem that unwraps to a *Repo.
Validate(k) ==
    IF ~Found(k) THEN "err"
    ELSE IF Unwrappable(k)
         THEN IF UnwrapsToRepo(k) THEN "nil" ELSE "err"
         ELSE "err"

\* ServeHTTP returns one of its own errors without calling pull.
HandlerErr(w, e) ==
    /\ wpc' = [wpc EXCEPT ![w] = e]
    /\ UNCHANGED <<config, prov, head, hash, statFs, writer, rlocked, cancelled,
                   tickPending, timerVars, wclone, wpre, readVars>>

\* gitfs.pull() is called with gitfs == nil.
NilPull(w) ==
    /\ wpc' = [wpc EXCEPT ![w] = "nilpull"]
    /\ UNCHANGED <<config, prov, head, hash, statFs, writer, rlocked, cancelled,
                   tickPending, timerVars, wclone, wpre, readVars>>

\* Handler.ServeHTTP up to its return or its call of pull.  The result of
\* the type assertion ufs.(*Repo) is dropped and the `if !ok` after it
\* tests the ok of the enclosing `if`, which is true there: every
\* unwrappable filesystem reaches gitfs.pull().
ServeHTTP(w) ==
    /\ Alive
    /\ wpc[w] = "idle"
    /\ \E k \in FsKinds :
          IF ~Found(k)
          THEN HandlerErr(w, "err_missing")
          ELSE IF Unwrappable(k)
               THEN IF UnwrapsToRepo(k) THEN PullCall(w) ELSE NilPull(w)
               ELSE HandlerErr(w, "err_unwrap")

\* ServeHTTP has returned its error to the HTTP server.
HandlerReturnErr(w) ==
    /\ Alive
    /\ wpc[w] \in {"err_missing", "err_unwrap"}
    /\ wpc' = [wpc EXCEPT ![w] = "idle"]
    /\ UNCHANGED <<config, prov, head, hash, statFs, writer, rlocked, cancelled,
                   tickPending, timerVars, wclone, wpre, readVars>>

\* r.mu.Lock() with r == nil: the nil pointer dereference panics in the
\* request's goroutine and the request is aborted.
HandlerPanic(w) ==
    /\ Alive
    /\ wpc[w] = "nilpull"
    /\ wpc' = [wpc EXCEPT ![w] = "idle"]
    /\ UNCHANGED <<config, prov, head, hash, statFs, writer, rlocked, cancelled,
                   tickPending, timerVars, wclone, wpre, readVars>>

\* Variant of PullLock: pull returns nil without cloning when the stored
\* hash is the one the reference is at.
PullLock_SkipsWhenCurrent(w) ==
    /\ Alive
    /\ wpc[w] = "lock"
    /\ CanLock
    /\ writer' = w
    /\ wpc' = [wpc EXCEPT ![w] = IF hash = Hash(head) THEN "ret" ELSE "clone"]
    /\ wpre' = [wpre EXCEPT ![w] = [h |-> hash, fs |-> statFs]]
    /\ UNCHANGED <<config, prov, head, hash, statFs, rlocked, cancelled,
                   tickPending, timerVars, wclone, readVars>>

\* r.mu.Lock() returns; r.repo.Clone(r.Ref) is called with the lock held.
PullLock(w) ==
    /\ Alive
    /\ wpc[w] = "lock"
    /\ CanLock
    /\ writer' = w
    /\ wpc' = [wpc EXCEPT ![w] = "clone"]
    /\ wpre' = [wpre EXCEPT ![w] = [h |-> hash, fs |-> statFs]]
    /\ UNCHANGED <<config, prov, head, hash, statFs, rlocked, cancelled,
                   tickPending, timerVars, wclone, readVars>>

\* Variant of PullCloneErr: the hash is stored before err is looked at.
PullCloneErr_StoresHash(w) ==
    /\ Alive
    /\ wpc[w] = "clone"
    /\ hash' = Hash(head)
    /\ wpc' = [wpc EXCEPT ![w] = "reterr"]
    /\ UNCHANGED <<config, prov, head, statFs, writer, rlocked, cancelled,
                   tickPending, timerVars, wclone, wpre, readVars>>

\* Clone fails: if err != nil { return err }
PullCloneErr(w) ==
    /\ Alive
    /\ wpc[w] = "clone"
    /\ wpc' = [wpc EXCEPT ![w] = "reterr"]
    /\ UNCHANGED <<config, prov, head, hash, statFs, writer, rlocked, cancelled,
                   tickPending, timerVars, wclone, wpre, readVars>>

\* The deferred r.mu.Unlock() of the failed call; the error is returned.
PullReturnErr(w) ==
    /\ Alive
    /\ wpc[w] = "reterr"
    /\ writer' = NoOne
    /\ wpc' = [wpc EXCEPT ![w] = "idle"]
    /\ wpre' = [wpre EXCEPT ![w] = None]
    /\ UNCHANGED <<config, prov, head, hash, statFs, rlocked, cancelled,
                   tickPending, timerVars, wclone, readVars>>

\* Clone returns the hash and the tree of the commit the reference is at.
PullCloneOk(w) ==
    /\ Alive
    /\ wpc[w] = "clone"
    /\ wclone' = [wclone EXCEPT ![w] = [h |-> Hash(head), fs |-> TreeOf(head)]]
    /\ wpc' = [wpc EXCEPT ![w] = "sethash"]
    /\ wpre' = [wpre EXCEPT ![w] = None]
    /\ UNCHANGED <<config, prov, head, hash, statFs, writer, rlocked, cancelled,
                   tickPending, timerVars, readVars>>

\* r.hash = h
PullSetHash(w) ==
    /\ Alive
    /\ wpc[w] = "sethash"
    /\ hash' = wclone[w].h
    /\ wpc' = [wpc EXCEPT ![w] = "setfs"]
    /\ UNCHANGED <<config, prov, head, statFs, writer, rlocked, cancelled,
                   tickPending, timerVars, wclone, wpre, readVars>>

\* r.statFs = statFs{fs}
PullSetFs(w) ==
    /\ Alive
    /\ wpc[w] = "setfs"
    /\ statFs' = wclone[w].fs
    /\ rseen' = SeenAfterInstall(wclone[w].fs)
    /\ wpc' = [wpc EXCEPT ![w] = "ret"]
    /\ UNCHANGED <<config, prov, head, hash, writer, rlocked, cancelled,
                   tickPending, timerVars, wclone, wpre,
                   rpc, rname, rres, robs>>

\* return nil, and the deferred r.mu.Unlock().
PullReturn(w) ==
    /\ Alive
    /\ wpc[w] = "ret"
    /\ writer' = NoOne
    /\ wpc' = [wpc EXCEPT ![w] = "idle"]
    /\ wclone' = [wclone EXCEPT ![w] = NoClone]
    /\ UNCHANGED <<config, prov, head, hash, statFs, rlocked, cancelled,
                   tickPending, timerVars, wpre, readVars>>

\* -------------------------------------------------------------- refresh
\* time.NewTicker panics on a non-positive period.
TimerStart ==
    /\ tpc = "start"
    /\ tpc' = IF RefreshPeriod <= 0 THEN "panic" ELSE "select"
    /\ UNCHANGED <<config, prov, head, hash, statFs, writer, rlocked, cancelled,
                   tickPending, th, tclone, pullVars, readVars>>

\* The ticker exists from NewTicker to t.Stop().
TickerRunning == tpc \notin {"none", "start", "stopped", "panic"}

\* The ticker fires: a tick is put in t.C, which holds one tick.
Tick ==
    /\ TickerRunning
    /\ ~tickPending
    /\ tickPending' = TRUE
    /\ UNCHANGED <<config, prov, head, hash, statFs, writer, rlocked, cancelled,
                   timerVars, pullVars, readVars>>

\* Variant of TimerSelectDone: the cancellation is looked at only when a
\* tick arrives.
TimerSelectDone_WaitsForTick ==
    /\ tpc = "select"
    /\ cancelled
    /\ tickPending
    /\ tpc' = "stopped"
    /\ UNCHANGED <<config, prov, head, hash, statFs, writer, rlocked, cancelled,
                   tickPending, th, tclone, pullVars, readVars>>

\* select, case <-r.ctx.Done(): t.Stop() and return.
TimerSelectDone ==
    /\ tpc = "select"
    /\ cancelled
    /\ tpc' = "stopped"
    /\ UNCHANGED <<config, prov, head, hash, statFs, writer, rlocked, cancelled,
                   tickPending, th, tclone, pullVars, readVars>>

\* select, case <-t.C: the tick is taken and r.repo.Resolve(r.Ref) called.
\* When both cases are ready select takes either.
TimerSelectTick ==
    /\ tpc = "select"
    /\ tickPending
    /\ tickPending' = FALSE
    /\ tpc' = "resolve"
    /\ UNCHANGED <<config, prov, head, hash, statFs, writer, rlocked, cancelled,
                   th, tclone, pullVars, readVars>>

\* Resolve fails: the error is logged.
TimerResolveErr ==
    /\ tpc = "resolve"
    /\ tpc' = "resolve_err"
    /\ UNCHANGED <<config, prov, head, hash, statFs, writer, rlocked, cancelled,
                   tickPending, th, tclone, pullVars, readVars>>

\* Resolve returns the hash of the commit the reference is at.
TimerResolveOk ==
    /\ tpc = "resolve"
    /\ th' = Hash(head)
    /\ tpc' = "compare"
    /\ UNCHANGED <<config, prov, head, hash, statFs, writer, rlocked, cancelled,
                   tickPending, tclone, pullVars, readVars>>

\* What a read of r.hash made without the lock can return: the stored
\* hash or, while a pull is storing another one (r.hash = h in pull), the
\* new hash or a mix of the halves of both.
UnlockedHashRead ==
    {hash} \cup
    UNION {{wclone[w].h, <<hash[1], wclone[w].h[2]>>, <<wclone[w].h[1], hash[2]>>} :
              w \in {x \in Webhooks : wpc[x] = "sethash"}}

\* Variant of TimerCompare: the equality test is missing.
TimerCompare_AlwaysClones ==
    /\ tpc = "compare"
    /\ tpc' = "clone"
    /\ th' = ZeroHash
    /\ UNCHANGED <<config, prov, head, hash, statFs, writer, rlocked, cancelled,
                   tickPending, tclone, pullVars, readVars>>

\* Variant of TimerCompare: the loop always takes the hashes for equal.
TimerCompare_NeverClones ==
    /\ tpc = "compare"
    /\ tpc' = "select"
    /\ th' = ZeroHash
    /\ UNCHANGED <<config, prov, head, hash, statFs, writer, rlocked, cancelled,
                   tickPending, tclone, pullVars, readVars>>

\* if h == r.hash { continue }; otherwise r.repo.Clone(r.Ref) is called.
TimerCompare ==
    /\ tpc = "compare"
    /\ \E v \in UnlockedHashRead :
          tpc' = IF th = v THEN "select" ELSE "clone"
    /\ th' = ZeroHash
    /\ UNCHANGED <<config, prov, head, hash, statFs, writer, rlocked, cancelled,
                   tickPending, tclone, pullVars, readVars>>

\* Variant of TimerCloneErr: the loop returns on the error.
TimerCloneErr_Returns ==
    /\ tpc = "clone"
    /\ tpc' = "stopped"
    /\ UNCHANGED <<config, prov, head, hash, statFs, writer, rlocked, cancelled,
                   tickPending, th, tclone, pullVars, readVars>>

\* Clone fails: the error is logged.
TimerCloneErr ==
    /\ tpc = "clone"
    /\ tpc' = "clone_err"
    /\ UNCHANGED <<config, prov, head, hash, statFs, writer, rlocked, cancelled,
                   tickPending, th, tclone, pullVars, readVars>>

\* continue, after either error: back to the select.
TimerContinue ==
    /\ tpc \in {"resolve_err", "clone_err"}
    /\ tpc' = "select"
    /\ UNCHANGED <<config, prov, head, hash, statFs, writer, rlocked, cancelled,
                   tickPending, th, tclone, pullVars, readVars>>

\* Clone returns; r.mu.Lock() is called.
TimerCloneOk ==
    /\ tpc = "clone"
    /\ tclone' = [h |-> Hash(head), fs |-> TreeOf(head)]
    /\ tpc' = "lock"
    /\ UNCHANGED <<config, prov, head, hash, statFs, writer, rlocked, cancelled,
                   tickPending, th, pullVars, readVars>>

\* r.mu.Lock() returns.
TimerLock ==
    /\ tpc = "lock"
    /\ CanLock
    /\ writer' = Timer
    /\ tpc' = "sethash"
    /\ UNCHANGED <<config, prov, head, hash, statFs, rlocked, cancelled,
                   tickPending, th, tclone, pullVars, readVars>>

\* Variant of TimerSetHash: the install stores the tree only.
TimerSetHash_KeepsOld ==
    /\ tpc = "sethash"
    /\ hash' = hash
    /\ tpc' = "setfs"
    /\ UNCHANGED <<config, prov, head, statFs, writer, rlocked, cancelled,
                   tickPending, th, tclone, pullVars, readVars>>

\* r.hash = hash
TimerSetHash ==
    /\ tpc = "sethash"
    /\ hash' = tclone.h
    /\ tpc' = "setfs"
    /\ UNCHANGED <<config, prov, head, statFs, writer, rlocked, cancelled,
                   tickPending, th, tclone, pullVars, readVars>>

\* r.statFs = statFs{f}
TimerSetFs ==
    /\ tpc = "setfs"
    /\ statFs' = tclone.fs
    /\ rseen' = SeenAfterInstall(tclone.fs)
    /\ tpc' = "unlock"
    /\ UNCHANGED <<config, prov, head, hash, writer, rlocked, cancelled,
                   tickPending, th, tclone, pullVars, rpc, rname, rres, robs>>

\* r.mu.Unlock(), and back to the select.
TimerUnlock ==
    /\ tpc = "unlock"
    /\ writer' = NoOne
    /\ tpc' = "select"
    /\ tclone' = NoClone
    /\ UNCHANGED <<config, prov, head, hash, statFs, rlocked, cancelled,
                   tickPending, th, pullVars, readVars>>

\* ------------------------------------------------------------ behaviours
Next ==
    \/ Provision
    \/ Cleanup
    \/ RemoteUpdate
    \/ \E r \in Readers :
          \/ ReaderCall(r)
          \/ ReaderRLock(r)
          \/ ReaderOpen(r)
          \/ ReaderFileStat(r)
          \/ ReaderReturn(r)
    \/ \E w \in Webhooks :
          \/ PullCall(w)
          \/ PullLock(w)
          \/ PullCloneErr(w)
          \/ PullReturnErr(w)
          \/ PullCloneOk(w)
          \/ PullSetHash(w)
          \/ PullSetFs(w)
          \/ PullReturn(w)
    \/ TimerStart
    \/ Tick
    \/ TimerSelectDone
    \/ TimerSelectTick
    \/ TimerResolveErr
    \/ TimerResolveOk
    \/ TimerCompare
    \/ TimerCloneErr
    \/ TimerContinue
    \/ TimerCloneOk
    \/ TimerLock
    \/ TimerSetHash
    \/ TimerSetFs
    \/ TimerUnlock

Spec == Init /\ [][Next]_vars

\* The steps of pull after its call, and the steps of the refresh goroutine.
PullNext(w) ==
    \/ PullLock(w)
    \/ PullCloneErr(w)
    \/ PullReturnErr(w)
    \/ PullCloneOk(w)
    \/ PullSetHash(w)
    \/ PullSetFs(w)
    \/ PullReturn(w)

TimerNext ==
    \/ TimerStart
    \/ TimerSelectDone
    \/ TimerSelectTick
    \/ TimerResolveErr
    \/ TimerResolveOk
    \/ TimerCompare
    \/ TimerCloneErr
    \/ TimerContinue
    \/ TimerCloneOk
    \/ TimerLock
    \/ TimerSetHash
    \/ TimerSetFs
    \/ TimerUnlock

\* Scheduling.  A goroutine that can take a step takes one: a call of
\* Resolve or Clone returns, a holder of r.mu goes on to its Unlock.
\* sync.RWMutex hands the lock to a waiting Lock (strong fairness: the lock
\* may be taken and released by others in between), and the select of
\* refresh() picks among its ready cases at random, so a case that is ready
\* again and again is taken (strong fairness).  Nothing makes the ticker
\* fire, a request arrive, the remote move or Cleanup be called.
LockHoldersProceed ==
    /\ \A r \in Readers :
          WF_vars(ReaderOpen(r) \/ ReaderFileStat(r) \/ ReaderReturn(r))
    /\ \A w \in Webhooks :
          WF_vars(PullCloneErr(w) \/ PullReturnErr(w) \/ PullCloneOk(w)
                     \/ PullSetHash(w) \/ PullSetFs(w) \/ PullReturn(w))

TimerProceeds ==
    /\ WF_vars(TimerStart)
    /\ SF_vars(TimerSelectDone)
    /\ WF_vars(TimerResolveErr \/ TimerResolveOk)
    /\ WF_vars(TimerCompare)
    /\ WF_vars(TimerCloneErr \/ TimerCloneOk)
    /\ WF_vars(TimerContinue)
    /\ SF_vars(TimerLock)
    /\ WF_vars(TimerSetHash)
    /\ WF_vars(TimerSetFs)
    /\ WF_vars(TimerUnlock)

\* The behaviours checked for progress: one goroutine calling Stat, one
\* webhook goroutine, the ticker and the refresh goroutine.
FairReaders == {"statter"}
FairWebhooks == {"w1"}

FairNext ==
    \/ Provision
    \/ Cleanup
    \/ RemoteUpdate
    \/ \E r \in FairReaders :
          \/ ReaderCall(r)
          \/ ReaderRLock(r)
          \/ ReaderOpen(r)
          \/ ReaderFileStat(r)
          \/ ReaderReturn(r)
    \/ \E w \in FairWebhooks :
          \/ PullCall(w)
          \/ PullNext(w)
    \/ Tick
    \/ TimerNext

SpecFair == Init /\ [][FairNext]_vars /\ LockHoldersProceed /\ TimerProceeds

\* The ticker fires every period and its tick is taken by the select; the
\* remote answers: a Resolve and a Clone that are tried again and again
\* succeed in the end.
TickerFires == WF_vars(Tick) /\ SF_vars(TimerSelectTick)
RemoteAnswers == SF_vars(TimerResolveOk) /\ SF_vars(TimerCloneOk)

SpecConverge ==
    /\ Init /\ [][FairNext]_vars
    /\ LockHoldersProceed /\ TimerProceeds
    /\ TickerFires /\ RemoteAnswers

\* The behaviours in which the remote reference only moves forward.
ForwardNext ==
    \/ Provision
    \/ Cleanup
    \/ RemotePush
    \/ \E r \in FairReaders :
          \/ ReaderCall(r)
          \/ ReaderRLock(r)
          \/ ReaderOpen(r)
          \/ ReaderFileStat(r)
          \/ ReaderReturn(r)
    \/ \E w \in Webhooks :
          \/ PullCall(w)
          \/ PullNext(w)
    \/ Tick
    \/ TimerNext

SpecForward == Init /\ [][ForwardNext]_vars

\* The webhook handler in front of the Repo: in Spec every request finds
\* the Repo under the handler's name, as Handler.Validate requires of the
\* configuration; here a request finds whatever is registered under the
\* name at the time, and no Open or Stat is in progress.
HandlerNext ==
    \/ Provision
    \/ Cleanup
    \/ RemoteUpdate
    \/ \E w \in Webhooks :
          \/ ServeHTTP(w)
          \/ HandlerReturnErr(w)
          \/ HandlerPanic(w)
          \/ PullNext(w)
    \/ Tick
    \/ TimerNext

SpecHandler == Init /\ [][HandlerNext]_vars

\* ================================================================ claims
\* hash and statFs are the two results of one Clone.
OneSnapshot == \E c \in Commits : hash = Hash(c) /\ statFs = TreeOf(c)

\* The positions of pull between Lock and Unlock, and of the refresh
\* goroutine between the start of its Clone and its Unlock.
InPull(w) == wpc[w] \in {"clone", "reterr", "sethash", "setfs", "ret"}
InTimerRefresh == tpc \in {"clone", "clone_err", "lock", "sethash", "setfs", "unlock"}

\* C1: while an Open or Stat holds the read lock the Repo holds one whole
\* snapshot (r.hash and r.statFs come from the same Clone), and what the
\* call has read is that snapshot's tree, for every interleaving with pulls
\* and refresh-loop installs.
C1_ReadersSeeOneSnapshot ==
    \A r \in Readers :
        r \in rlocked =>
            /\ OneSnapshot
            /\ rpc[r] \in {"fstat", "ret"} => robs[r] = statFs

\* C1 witness: a reader is inside Open with the lock held while the refresh
\* goroutine waits to install a different snapshot.
C1_Witness ==
    \E r \in Readers :
        /\ r \in rlocked
        /\ rpc[r] = "ret"
        /\ tpc = "lock"
        /\ tclone.h # hash

\* C2: when Clone fails in pull, the call returns the error with r.hash
\* and r.statFs equal to what they were when the call took the lock, and
\* they are one whole snapshot.
C2_FailedPullKeepsSnapshot ==
    [][\A w \in Webhooks :
          (wpc[w] = "reterr" /\ wpc'[w] = "idle") =>
              /\ hash' = wpre[w].h
              /\ statFs' = wpre[w].fs
              /\ OneSnapshot']_vars

\* C2 witness: a pull whose Clone failed is about to return, while the
\* remote is at a commit other than the current snapshot's.
C2_Witness ==
    \E w \in Webhooks :
        /\ wpc[w] = "reterr"
        /\ Hash(head) # hash

\* The hashes that pulls are storing into r.hash at this instant.
StoresInProgress == {wclone[w].h : w \in {x \in Webhooks : wpc[x] = "sethash"}}

C4_PullsSerialized ==
    /\ \A w1, w2 \in Webhooks : (InPull(w1) /\ InPull(w2)) => w1 = w2
    /\ \A w \in Webhooks : InPull(w) => writer = w
    /\ \A w \in Webhooks :
          wpc[w] = "ret" => (hash = wclone[w].h /\ statFs = wclone[w].fs)

\* C4 witness: one pull has installed its snapshot and not yet returned
\* while the other pull waits in Lock.
C4_Witness ==
    \E w1, w2 \in Webhooks :
        /\ w1 # w2
        /\ wpc[w1] = "ret"
        /\ wpc[w2] = "lock"

\* C5: at most one clone-and-install is in flight over the refresh loop
\* and all pulls.
C5_OneRefreshInFlight ==
    Cardinality({w \in Webhooks : InPull(w)}) + (IF InTimerRefresh THEN 1 ELSE 0) <= 1

\* C6: nobody holds the write lock while its Resolve or Clone is in
\* progress.
C6_NoCloneUnderWriteLock ==
    /\ \A w \in Webhooks : writer = w => wpc[w] # "clone"
    /\ writer = Timer => tpc \notin {"resolve", "clone"}

\* C7: no reader holds the read lock while its open or stat of the tree is
\* in progress.
C7_NoReadIOUnderRLock ==
    \A r \in Readers : r \in rlocked => rpc[r] \notin {"open", "fstat"}

\* C8: once Cleanup has cancelled the context the refresh loop starts no
\* Resolve and no Clone.
C8_NoCheckAfterCleanup ==
    [][cancelled =>
          /\ tpc' = "resolve" => tpc = "resolve"
          /\ tpc' = "clone" => tpc = "clone"]_vars

\* C9: a Resolve error or a Clone error in a tick leaves the snapshot as
\* it is and the loop running: the step that fails and the step after it
\* change neither r.hash nor r.statFs, and lead back to the select with the
\* ticker still running.
C9_TickErrorKeepsLoop ==
    [][/\ (tpc \in {"resolve", "clone"} /\ tpc' \notin {tpc, "compare", "lock"}) =>
            /\ tpc' = (IF tpc = "resolve" THEN "resolve_err" ELSE "clone_err")
            /\ hash' = hash /\ statFs' = statFs
            /\ TickerRunning'
       /\ (tpc \in {"resolve_err", "clone_err"} /\ tpc' # tpc) =>
            /\ tpc' = "select"
            /\ hash' = hash /\ statFs' = statFs
            /\ TickerRunning']_vars

\* C9 witness: a Clone of the tick has failed while the remote is at a
\* commit other than the current snapshot's.
C9_Witness == tpc = "clone_err" /\ Hash(head) # hash /\ OneSnapshot

\* C10: the tree an Open or Stat has read was current at some instant of
\* the call, and the call's result is that tree's answer for the name: an
\* error when the name is absent, the file of that tree otherwise.
C10_ReadIsCurrentDuringCall ==
    \A r \in Readers :
        rpc[r] \in {"fstat", "ret"} =>
            /\ robs[r] \in rseen[r]
            /\ rname[r] \notin DOMAIN robs[r] => rres[r] = NotFound
            /\ rname[r] \in DOMAIN robs[r] =>
                  rres[r] \in {FsOpen(robs[r], rname[r]),
                               FileStat(FsOpen(robs[r], rname[r]))}

\* C10 witness: a call that began under one snapshot has answered from a
\* later one, in which the name is absent.
C10_Witness ==
    \E r \in Readers :
        /\ rpc[r] = "ret"
        /\ Cardinality(rseen[r]) > 1
        /\ rres[r] = NotFound

\* The order of the positions of one request that finds the Repo: the call
\* of pull, its one Clone, and either the error return or the two stores
\* and the nil return.
GitPath ==
    {<<"idle", "lock">>, <<"lock", "clone">>,
     <<"clone", "reterr">>, <<"reterr", "idle">>,
     <<"clone", "sethash">>, <<"sethash", "setfs">>,
     <<"setfs", "ret">>, <<"ret", "idle">>}
PullPositions == {"lock", "clone", "reterr", "sethash", "setfs", "ret"}

\* C11: a webhook request that finds the Repo calls pull once, pull makes
\* exactly one Clone whatever the stored hash is, and the request returns
\* what pull returns: the error with the snapshot untouched when the Clone
\* failed, nil with the Clone's hash and tree installed when it succeeded.
C11_WebhookRefreshesOnce ==
    [][\A w \in Webhooks :
          (wpc'[w] # wpc[w] /\ (wpc[w] \in PullPositions \/ wpc'[w] \in PullPositions)) =>
              /\ <<wpc[w], wpc'[w]>> \in GitPath
              /\ (wpc[w] = "ret" =>
                     hash' = wclone[w].h /\ statFs' = wclone[w].fs)
              /\ (wpc[w] = "reterr" =>
                     hash' = wpre[w].h /\ statFs' = wpre[w].fs)]_vars

\* C11 witness: a request is inside its Clone although the stored hash is
\* already the one the reference is at.
C11_Witness ==
    \E w \in Webhooks :
        /\ wpc[w] = "clone"
        /\ hash = Hash(head)
        /\ statFs = TreeOf(head)

\* C12: Cleanup never waits: in every state of a provisioned Repo it can
\* run to its end, whoever holds or waits for r.mu and wherever the refresh
\* goroutine and the pulls are, and it changes nothing but the cancellation,
\* so a Clone or an install in progress goes on by itself.
C12_CleanupNeverWaits ==
    /\ []((Alive /\ prov # "new") => ENABLED Cleanup)
    /\ [][cancelled' # cancelled =>
             UNCHANGED <<prov, hash, statFs, writer, rlocked, tickPending,
                         timerVars, pullVars, readVars>>]_vars

\* C12 witness: Cleanup has returned while a pull holds the write lock
\* inside its Clone and the refresh goroutine is in the middle of a tick.
C12_Witness ==
    /\ cancelled
    /\ \E w \in Webhooks : wpc[w] = "clone" /\ writer = w
    /\ tpc \in {"resolve", "compare", "clone", "lock"}

\* A value is the pair of results of one successful Clone.
IsClone(v) == \E c \in Commits : v = [h |-> Hash(c), fs |-> TreeOf(c)]

C14_SnapshotAccessLocked ==
    /\ \A r \in Readers : rpc[r] = "open" => r \in rlocked
    /\ \A w \in Webhooks : wpc[w] \in {"sethash", "setfs"} => writer = w
    /\ tpc \in {"sethash", "setfs"} => writer = Timer
    /\ tpc = "compare" => \A w \in Webhooks : wpc[w] # "sethash"

\* The refresh goroutine has been started and its ticker can be made.
LoopStarted == tpc \notin {"none", "panic"} /\ RefreshPeriod > 0

\* C15: the refresh goroutine goes from not started to running to stopped
\* and stays stopped: once Cleanup has cancelled the context, the goroutine
\* reaches its return (t.Stop()) whether or not the ticker fires again,
\* provided its calls of Resolve and Clone return; after that it takes no
\* step, so it makes no check and no install.
C15_LoopStopsAndStaysStopped ==
    /\ [][tpc = "stopped" => UNCHANGED <<timerVars>>]_vars
    /\ [][tpc' = "none" => tpc = "none"]_vars
    /\ (cancelled /\ LoopStarted) ~> (tpc = "stopped")

\* C15 witness: the goroutine has stopped with a tick left untaken in t.C,
\* after a snapshot other than the first one was installed.
C15_Witness ==
    /\ tpc = "stopped"
    /\ cancelled
    /\ tickPending
    /\ hash = Hash(2)

\* C16: the refresh goroutine exists only on a Repo whose Provision has
\* succeeded, with the first snapshot installed and a nonzero refresh
\* period; a Provision that fails (empty URL, NewRepo error, Clone error)
\* installs nothing and starts nothing; and the goroutine is started at most
\* once, by Provision.
C16_LoopGatedByProvision ==
    /\ [](/\ tpc # "none" =>
                /\ prov = "ready"
                /\ RefreshPeriod # 0
                /\ \E c \in Commits : hash = Hash(c)
                /\ \E c \in Commits : statFs = TreeOf(c)
          /\ (prov = "ready" /\ RefreshPeriod = 0) => tpc = "none"
          /\ prov = "failed" =>
                /\ hash = ZeroHash
                /\ statFs = NoTree
                /\ tpc = "none"
          /\ URL = "" => prov # "ready")
    /\ [][(tpc # "start" /\ tpc' = "start") =>
             (tpc = "none" /\ prov = "new" /\ prov' = "ready")]_vars

\* C16 witness: Provision has failed on a Repo with a URL and a refresh
\* period; the remote has moved and Cleanup has been called since.
C16_Witness ==
    /\ prov = "failed"
    /\ URL # ""
    /\ RefreshPeriod # 0
    /\ cancelled
    /\ head # 1

\* C17: the refresh goroutine is never started with a refresh period below
\* zero, so time.NewTicker is never called with a non-positive duration and
\* the goroutine does not panic when it starts.
C17_NoLoopOnNonPositivePeriod ==
    /\ tpc # "none" => RefreshPeriod > 0
    /\ tpc # "panic"

\* C18: with the refresh goroutine running and never cancelled, if the
\* remote reference ends up staying at one commit, then r.hash and r.statFs
\* end up being that commit's and stay so, whatever was installed before and
\* in whatever order (a clone made before the reference settled may still
\* be installed over a newer one; a later tick repairs it).
C18_ConvergesToRemote ==
    \A c \in Commits :
        <>[](head = c /\ ~cancelled /\ LoopStarted)
            => <>[](hash = Hash(c) /\ statFs = TreeOf(c))

\* C18 witness: the refresh goroutine has just installed an older commit
\* than the one the reference is at, and it has not been cancelled.
C18_Witness ==
    /\ tpc = "unlock"
    /\ hash = Hash(1)
    /\ statFs = TreeOf(1)
    /\ head = 2
    /\ ~cancelled

\* C19: while the remote reference only moves forward, no install replaces
\* the current snapshot by one of an earlier commit: r.hash and r.statFs
\* never go back, in any interleaving of ticks and webhook requests.
C19_NoRegression ==
    [][prov = "ready" =>
          /\ hash'[1] >= hash[1]
          /\ hash'[2] >= hash[2]
          /\ statFs'["a.txt"] >= statFs["a.txt"]]_vars

\* What the request of w found under the handler's name, read off the
\* position the request is at.
FoundKind(w) ==
    CASE wpc[w] = "err_missing" -> "missing"
      [] wpc[w] = "err_unwrap" -> "plain"
      [] wpc[w] = "nilpull" -> "other"
      [] OTHER -> "gitfs"

\* C20: a request that finds no filesystem, one that cannot be unwrapped,
\* or one that unwraps to something other than a *Repo (the filesystems
\* Handler.Validate refuses) returns an error and calls no pull; pull is
\* only ever called on the provisioned Repo, never on a nil *Repo.
C20_HandlerRefusesNonRepo ==
    \A w \in Webhooks :
        wpc[w] # "idle" =>
            IF Validate(FoundKind(w)) = "err"
            THEN wpc[w] \in {"err_missing", "err_unwrap"}
            ELSE prov = "ready"

====
